---- MODULE Spec2Model ----
(***************************************************************************)
(* PBR-AdGuard-Home synchronisation service (src/pbr_sync.py).             *)
(*                                                                         *)
(* The service keeps three pieces of state: the PBR policies parsed from   *)
(* `uci show pbr` (PBRConfig.policies), the registry of nft sets parsed    *)
(* from `nft list table inet fw4` (NFTablesManager.nft_sets), and the sync *)
(* state of PBRSyncService (processed_queries, last_check).  Python dicts  *)
(* keep insertion order, so both dicts are modelled as sequences of        *)
(* [k, v] pairs.  Text is modelled by the tokens the code looks for in it. *)
(***************************************************************************)
EXTENDS Integers, Sequences, FiniteSets, TLC

VARIABLES
  policies,           \* PBRConfig.policies: ordered dict  id -> policy
  nft_sets,           \* NFTablesManager.nft_sets: ordered dict  set name -> info
  processed_queries,  \* PBRSyncService.processed_queries: set of query ids
  last_check,         \* PBRSyncService.last_check
  clock,              \* the wall clock read by datetime.now()
  pass,               \* position of sync_domains: idle, or the loop state
  last,               \* what the last operation was given and what it did
  mutTotal,           \* nft add commands issued per (query id, address), ever
  mutEpoch            \* the same, since processed_queries was last cleared

vars == <<policies, nft_sets, processed_queries, last_check, clock, pass,
          last, mutTotal, mutEpoch>>

----------------------------------------------------------------------------
(* Bounds of the model.                                                    *)

\* Clock values run 0..MaxTime; one unit is the five minutes of line 278.
MaxTime == 2
\* At most this many records are returned by one get_query_log call.
MaxFetch == 2
\* Scaled-down stand-in for the 1000 of line 361.
CapacityThreshold == 2
\* Counters of issued commands saturate here.
MaxMut == 2
\* At most this many policy sections in one `uci show pbr` output.
MaxPolicies == 2
\* At most this many blocks in one `nft list table` output.
MaxBlocks == 2

\* Python's None.
None == "<None>"

SeqsUpTo(S, n) == UNION {[1..k -> S] : k \in 0..n}

Range(s) == {s[i] : i \in DOMAIN s}

----------------------------------------------------------------------------
(* Ordered dicts: sequences of [k, v], keys unique, in insertion order.    *)

DictKeys(d) == {d[i].k : i \in DOMAIN d}

DictHas(d, key) == key \in DictKeys(d)

DictIndex(d, key) == CHOOSE i \in DOMAIN d : d[i].k = key

DictGet(d, key) == d[DictIndex(d, key)].v

\* d.get(key, default)
DictGetOr(d, key, default) == IF DictHas(d, key) THEN DictGet(d, key) ELSE default

\* d[key] = val: an existing key keeps its position, a new key goes last.
DictPut(d, key, val) ==
  IF DictHas(d, key)
  THEN [d EXCEPT ![DictIndex(d, key)] = [k |-> key, v |-> val]]
  ELSE Append(d, [k |-> key, v |-> val])

----------------------------------------------------------------------------
(* PBRConfig: the policy store.                                            *)
(*                                                                         *)
(* A line of `uci show pbr` is [key, val]: key is the text the parser      *)
(* tests for ('=policy', 'name=', ...), val what follows it with the       *)
(* quotes stripped (the section index for '=policy', the list of           *)
(* space-separated tokens for 'dest_addr=').                               *)

\* is_domain on the tokens of the model: the CIDR token has a '/', which
\* the pattern does not admit.
is_domain(text) == text \in {"a.com", "b.com"}

\* [d.strip() for d in dest_addr.split() if self.is_domain(d)]
RECURSIVE FilterDomains(_)
FilterDomains(tokens) ==
  IF tokens = <<>> THEN <<>>
  ELSE IF is_domain(Head(tokens))
       THEN <<Head(tokens)>> \o FilterDomains(Tail(tokens))
       ELSE FilterDomains(Tail(tokens))

\* The policy as created when its '=policy' line is met.
NewPolicyDisabled ==
  [name |-> "", interface |-> "", domains |-> <<>>, enabled |-> FALSE]

NewPolicy ==
  [name |-> "", interface |-> "", domains |-> <<>>, enabled |-> TRUE]

\* One iteration of the loop over the lines; st = [pols, cur], cur the
\* current_policy (None before the first policy).
ParseUciLine(st, line) ==
  IF line.key = "=policy"
  THEN [pols |-> DictPut(st.pols, line.val, NewPolicy), cur |-> line.val]
  ELSE IF st.cur = None THEN st
  ELSE LET p == DictGet(st.pols, st.cur) IN
    CASE line.key = "name=" ->
           [st EXCEPT !.pols = DictPut(@, st.cur, [p EXCEPT !.name = line.val])]
      [] line.key = "interface=" ->
           [st EXCEPT !.pols = DictPut(@, st.cur, [p EXCEPT !.interface = line.val])]
      [] line.key = "dest_addr=" ->
           [st EXCEPT !.pols = DictPut(@, st.cur,
                                  [p EXCEPT !.domains = FilterDomains(line.val)])]
      [] line.key = "enabled=" ->
           [st EXCEPT !.pols = DictPut(@, st.cur,
                                  [p EXCEPT !.enabled = (line.val = "1")])]
      [] OTHER -> st

RECURSIVE ParseUci(_, _)
ParseUci(st, lines) ==
  IF lines = <<>> THEN st.pols
  ELSE ParseUci(ParseUciLine(st, Head(lines)), Tail(lines))

LoadConfigClearingFirst(old, out) ==
  IF out.ok THEN ParseUci([pols |-> <<>>, cur |-> None], out.lines) ELSE <<>>

\* load_config: out is what `uci show pbr` did, [ok, lines]; a failed run
\* (command missing, non-zero exit under check=True, output that does not
\* decode under text=True) raises inside subprocess.run.  No statement of
\* lines 52-88 raises on the text of a run that succeeded.
\* raises before self.policies is assigned.
load_config(old, out) ==
  IF out.ok THEN ParseUci([pols |-> <<>>, cur |-> None], out.lines) ELSE old

RECURSIVE PutDomains(_, _, _)
PutDomains(m, domains, interface) ==
  IF domains = <<>> THEN m
  ELSE PutDomains(DictPut(m, Head(domains), interface), Tail(domains), interface)

RECURSIVE AllDomainsIgnoringEnabled(_, _)
AllDomainsIgnoringEnabled(pols, m) ==
  IF pols = <<>> THEN m
  ELSE AllDomainsIgnoringEnabled(Tail(pols),
         PutDomains(m, Head(pols).v.domains, Head(pols).v.interface))

RECURSIVE AllDomains(_, _)
AllDomains(pols, m) ==
  IF pols = <<>> THEN m
  ELSE AllDomains(Tail(pols),
         IF Head(pols).v.enabled
         THEN PutDomains(m, Head(pols).v.domains, Head(pols).v.interface)
         ELSE m)

\* get_all_domains: ordered dict  domain -> interface
get_all_domains(pols) == AllDomains(pols, <<>>)

\* str.lower() on the names and annotations of the model.
Lower(s) == IF s \in {"Media", "MEDIA"} THEN "media" ELSE s

RECURSIVE NameMap(_, _)
NameMap(pols, m) ==
  IF pols = <<>> THEN m
  ELSE NameMap(Tail(pols),
         IF Head(pols).v.enabled /\ Head(pols).v.name # ""
         THEN DictPut(m, Lower(Head(pols).v.name), Head(pols).v.interface)
         ELSE m)

\* get_name_to_interface_map: dict  lower-cased name -> interface
get_name_to_interface_map(pols) == NameMap(pols, <<>>)

----------------------------------------------------------------------------
(* NFTablesManager: the registry of nft sets.                              *)
(*                                                                         *)
(* A line of `nft list table inet fw4` is [key, text, ips]: key is the     *)
(* text the parser tests for ('set pbr_' with '{', 'comment',              *)
(* 'elements = {', anything else), text the set name or the quoted         *)
(* comment, ips the addresses ip_pattern finds on an elements line.        *)

\* re.search(r'comment "(\w+)"', line): the quoted text must be one word.
CommentMatch(text) == text \in {"media", "MEDIA", "backup", "wan1", "wan2"}

NewSetInfo == [interface |-> None, elements |-> {}]

\* One iteration of the loop over the lines; st = [sets, cur], cur the
\* current_set.
ParseNftLine(st, line, name_to_interface) ==
  IF line.key = "set pbr_"
  THEN [sets |-> DictPut(st.sets, line.text, NewSetInfo), cur |-> line.text]
  ELSE IF st.cur # None /\ line.key = "comment"
  THEN IF CommentMatch(line.text)
       THEN LET interface ==
                  DictGetOr(name_to_interface, Lower(line.text), line.text)
                info == DictGet(st.sets, st.cur)
            IN [st EXCEPT !.sets =
                  DictPut(@, st.cur, [info EXCEPT !.interface = interface])]
       ELSE st
  ELSE IF st.cur # None /\ line.key = "elements = {"
  THEN LET info == DictGet(st.sets, st.cur)
       IN [sets |-> DictPut(st.sets, st.cur,
                      [info EXCEPT !.elements = @ \cup line.ips]),
           cur |-> None]
  ELSE st

RECURSIVE ParseNft(_, _, _)
ParseNft(st, lines, name_to_interface) ==
  IF lines = <<>> THEN st.sets
  ELSE ParseNft(ParseNftLine(st, Head(lines), name_to_interface),
                Tail(lines), name_to_interface)

\* discover_sets: out is what `nft list table inet fw4` did, [ok, lines]; a
\* failed run raises before anything is touched.  self.nft_sets is not
\* emptied first.
discover_sets(sets, pols, out) ==
  IF out.ok
  THEN ParseNft([sets |-> sets, cur |-> None], out.lines,
                get_name_to_interface_map(pols))
  ELSE sets

\* A mutation command is answered "ok" (returncode 0), "fail" (non-zero) or
\* "exc" (subprocess.run raises).
Outcomes == {"ok", "fail", "exc"}

AddIpNoMembershipTest(sets, set_name, ip_address, outcome) ==
  IF outcome = "ok"
  THEN LET info == DictGetOr(sets, set_name, [interface |-> None, elements |-> {}])
       IN [sets |-> DictPut(sets, set_name,
                      [info EXCEPT !.elements = @ \cup {ip_address}]),
           ret |-> TRUE, cmd |-> TRUE]
  ELSE [sets |-> sets, ret |-> FALSE, cmd |-> TRUE]

AddIpIgnoringResult(sets, set_name, ip_address, outcome) ==
  IF DictHas(sets, set_name) /\ ip_address \in DictGet(sets, set_name).elements
  THEN [sets |-> sets, ret |-> TRUE, cmd |-> FALSE]
  ELSE LET info == DictGetOr(sets, set_name, [interface |-> None, elements |-> {}])
       IN [sets |-> DictPut(sets, set_name,
                      [info EXCEPT !.elements = @ \cup {ip_address}]),
           ret |-> outcome = "ok", cmd |-> TRUE]

AddIpWithoutCaching(sets, set_name, ip_address, outcome) ==
  IF DictHas(sets, set_name) /\ ip_address \in DictGet(sets, set_name).elements
  THEN [sets |-> sets, ret |-> TRUE, cmd |-> FALSE]
  ELSE [sets |-> sets, ret |-> outcome = "ok", cmd |-> TRUE]

\* add_ip_to_set: [sets, ret, cmd], the registry afterwards, the value
\* returned and whether `nft add element` was run.  An entry created here
\* has no 'interface' key, which info.get('interface') reads as None.
add_ip_to_set(sets, set_name, ip_address, outcome) ==
  IF DictHas(sets, set_name) /\ ip_address \in DictGet(sets, set_name).elements
  THEN [sets |-> sets, ret |-> TRUE, cmd |-> FALSE]
  ELSE IF outcome = "ok"
  THEN LET info == DictGetOr(sets, set_name, [interface |-> None, elements |-> {}])
       IN [sets |-> DictPut(sets, set_name,
                      [info EXCEPT !.elements = @ \cup {ip_address}]),
           ret |-> TRUE, cmd |-> TRUE]
  ELSE [sets |-> sets, ret |-> FALSE, cmd |-> TRUE]

FindLastSetForInterface(sets, interface) ==
  LET hits == {i \in DOMAIN sets : sets[i].v.interface = interface}
  IN IF hits = {} THEN None
     ELSE sets[CHOOSE i \in hits : \A j \in hits : j <= i].k

\* find_set_for_interface: the first set, in dict order, bound to interface.
find_set_for_interface(sets, interface) ==
  LET hits == {i \in DOMAIN sets : sets[i].v.interface = interface}
  IN IF hits = {} THEN None
     ELSE sets[CHOOSE i \in hits : \A j \in hits : i <= j].k

----------------------------------------------------------------------------
(* PBRSyncService: one pass of sync_domains.                               *)
(*                                                                         *)
(* A query log record is [time, name, client, answer].  time is the        *)
(* instant an ISO timestamp denotes, or BadTime for a string               *)
(* datetime.fromisoformat rejects (a missing 'time' reads as '').  answer  *)
(* is a sequence of [type, value]; an element of type Malformed is one on  *)
(* which ans.get raises (not an object).                                   *)

BadTime == -1

Malformed == "<malformed>"

\* parse_query_time: the instant, or the current time on a parse error.
parse_query_time(time_str, now) == IF time_str = BadTime THEN now ELSE time_str

QueryIdWithoutClient(query) == <<query.time, query.name, "">>

\* query_id: the three fields the f-string joins.
query_id(query) == <<query.time, query.name, query.client>>

IsFreshInclusive(query_time, lc) == query_time >= lc

\* not (query_time <= self.last_check)
IsFresh(query_time, lc) == ~(query_time <= lc)

\* ip_address.startswith('127.') on the addresses of the model.
StartsWith127(ip_address) == ip_address \in {"127.0.0.1", "127.8.8.8"}

IsFilteredZeroOnly(ip_address) == ip_address = "0.0.0.0"

\* ip_address == '0.0.0.0' or ip_address.startswith('127.')
IsFiltered(ip_address) == ip_address = "0.0.0.0" \/ StartsWith127(ip_address)

\* The loop state of one domain: the registry, processed_queries and
\* added_count as they stand, and what was done so far: the add_ip_to_set
\* calls, the nft commands issued, each record's disposition, and whether
\* an exception has left the loop.
DomainLoopStart(sets, proc) ==
  [sets |-> sets, proc |-> proc, added |-> 0, calls |-> <<>>,
   issued |-> <<>>, disp |-> <<>>, raised |-> FALSE]

CallCountingFailures(st, nft_set, ip_address, qid, outcome) ==
  LET r == add_ip_to_set(st.sets, nft_set, ip_address, outcome)
  IN [st EXCEPT
        !.sets = r.sets,
        !.added = @ + 1,
        !.calls = Append(@, [id |-> qid, set |-> nft_set, ip |-> ip_address,
                             ret |-> r.ret, cmd |-> r.cmd]),
        !.issued = IF r.cmd
                   THEN Append(@, [id |-> qid, set |-> nft_set,
                                   ip |-> ip_address, outcome |-> outcome])
                   ELSE @]

\* Lines 347-348: the call of add_ip_to_set and the count of its successes.
CallAddIp(st, nft_set, ip_address, qid, outcome) ==
  LET r == add_ip_to_set(st.sets, nft_set, ip_address, outcome)
  IN [st EXCEPT
        !.sets = r.sets,
        !.added = IF r.ret THEN @ + 1 ELSE @,
        !.calls = Append(@, [id |-> qid, set |-> nft_set, ip |-> ip_address,
                             ret |-> r.ret, cmd |-> r.cmd]),
        !.issued = IF r.cmd
                   THEN Append(@, [id |-> qid, set |-> nft_set,
                                   ip |-> ip_address, outcome |-> outcome])
                   ELSE @]

\* Whether add_ip_to_set would run `nft add element` (line 238).
RunsCommand(sets, set_name, ip_address) ==
  add_ip_to_set(sets, set_name, ip_address, "ok").cmd

\* Lines 336-349 for one answer: the set of loop states it can lead to, one
\* for each way the environment can answer the command, if one is run.
ProcessAnswer(st, ans, interface, qid) ==
  IF st.raised THEN {st}
  ELSE IF ans.type = Malformed THEN {[st EXCEPT !.raised = TRUE]}
  ELSE IF ~(ans.type = "A" /\ ans.value # "") THEN {st}
  ELSE IF IsFiltered(ans.value) THEN {st}
  ELSE LET nft_set == find_set_for_interface(st.sets, interface)
       IN IF nft_set = None THEN {st}
          ELSE IF RunsCommand(st.sets, nft_set, ans.value)
          THEN {CallAddIp(st, nft_set, ans.value, qid, o) : o \in Outcomes}
          ELSE {CallAddIp(st, nft_set, ans.value, qid, "ok")}

RECURSIVE ProcessAnswers(_, _, _, _)
ProcessAnswers(S, answer, interface, qid) ==
  IF answer = <<>> THEN S
  ELSE ProcessAnswers(
         UNION {ProcessAnswer(st, Head(answer), interface, qid) : st \in S},
         Tail(answer), interface, qid)

Disp(st, d) == [st EXCEPT !.disp = Append(@, d)]

ProcessQueryNoDedup(st, query, interface, now, lc) ==
  IF st.raised THEN {Disp(st, "unreached")}
  ELSE IF ~IsFresh(parse_query_time(query.time, now), lc)
  THEN {Disp(st, "stale")}
  ELSE {Disp(r, IF r.raised THEN "raised" ELSE "processed") :
          r \in ProcessAnswers({[st EXCEPT !.proc = @ \cup {query_id(query)}]},
                               query.answer, interface, query_id(query))}

ProcessQueryMarkingOnSuccess(st, query, interface, now, lc) ==
  IF st.raised THEN {Disp(st, "unreached")}
  ELSE IF ~IsFresh(parse_query_time(query.time, now), lc)
  THEN {Disp(st, "stale")}
  ELSE IF query_id(query) \in st.proc THEN {Disp(st, "seen")}
  ELSE {Disp([r EXCEPT !.proc =
                 IF /\ Len(r.calls) > Len(st.calls)
                    /\ \A i \in (Len(st.calls) + 1)..Len(r.calls) : r.calls[i].ret
                 THEN @ \cup {query_id(query)} ELSE @],
             IF r.raised THEN "raised" ELSE "processed") :
          r \in ProcessAnswers({st}, query.answer, interface, query_id(query))}

\* Lines 321-349 for one record.
ProcessQuery(st, query, interface, now, lc) ==
  IF st.raised THEN {Disp(st, "unreached")}
  ELSE IF ~IsFresh(parse_query_time(query.time, now), lc)
  THEN {Disp(st, "stale")}
  ELSE IF query_id(query) \in st.proc THEN {Disp(st, "seen")}
  ELSE {Disp(r, IF r.raised THEN "raised" ELSE "processed") :
          r \in ProcessAnswers({[st EXCEPT !.proc = @ \cup {query_id(query)}]},
                               query.answer, interface, query_id(query))}

RECURSIVE ProcessQueries(_, _, _, _, _)
ProcessQueries(S, queries, interface, now, lc) ==
  IF queries = <<>> THEN S
  ELSE ProcessQueries(
         UNION {ProcessQuery(st, Head(queries), interface, now, lc) : st \in S},
         Tail(queries), interface, now, lc)

----------------------------------------------------------------------------
(* The text the two commands print, built from what they list.             *)

\* A policy section of /etc/config/pbr: the options in `has` are present.
Section(has, name, interface, dest_addr, enabled) ==
  [has |-> has, name |-> name, interface |-> interface,
   dest_addr |-> dest_addr, enabled |-> enabled]

OptionLine(sec, key, val) ==
  IF key \in sec.has THEN <<[key |-> key, val |-> val]>> ELSE <<>>

\* pbr.@policy[i]=policy and the option lines of the section.
SectionLines(sec, i) ==
  <<[key |-> "=policy", val |-> ToString(i - 1)]>>
  \o OptionLine(sec, "name=", sec.name)
  \o OptionLine(sec, "interface=", sec.interface)
  \o OptionLine(sec, "dest_addr=", sec.dest_addr)
  \o OptionLine(sec, "enabled=", sec.enabled)

RECURSIVE SectionsLines(_, _)
SectionsLines(sections, i) ==
  IF i > Len(sections) THEN <<>>
  ELSE SectionLines(sections[i], i) \o SectionsLines(sections, i + 1)

\* `uci show pbr`: the main section (pbr.config=pbr and its options, among
\* them the service's own enabled flag), then the policy sections.
UciLines(sections) ==
  <<[key |-> "=pbr", val |-> "config"], [key |-> "enabled=", val |-> "0"]>>
  \o SectionsLines(sections, 1)

UciOut(uci) == [ok |-> uci.ok, lines |-> UciLines(uci.sections)]

\* A block of `nft list table inet fw4`: a set of the reserved prefix
\* ("pbrset"), another set ("set"), or a rule of a chain ("rule").  annot
\* holds the comment if there is one, elems the addresses of the elements
\* line if there is one (nft prints none for an empty set).
Block(kind, name, annot, elems) ==
  [kind |-> kind, name |-> name, annot |-> annot, elems |-> elems]

BlockLines(b) ==
  (IF b.kind = "rule" THEN <<>>
   ELSE <<[key |-> IF b.kind = "pbrset" THEN "set pbr_" ELSE "other",
           text |-> b.name, ips |-> {}]>>)
  \o [i \in 1..Len(b.annot) |-> [key |-> "comment", text |-> b.annot[i], ips |-> {}]]
  \o [i \in 1..Len(b.elems) |-> [key |-> "elements = {", text |-> "", ips |-> b.elems[i]]]
  \o (IF b.kind = "rule" THEN <<>>
      ELSE <<[key |-> "other", text |-> "}", ips |-> {}]>>)

RECURSIVE NftLines(_)
NftLines(blocks) ==
  IF blocks = <<>> THEN <<>>
  ELSE BlockLines(Head(blocks)) \o NftLines(Tail(blocks))

NftOut(nft) == [ok |-> nft.ok, lines |-> NftLines(nft.blocks)]

----------------------------------------------------------------------------
(* The operations.                                                         *)

\* The position of sync_domains: the domains still to come (todo), the
\* iterations done in this pass (done), added_count and the calls counted;
\* the time at which the pass was entered (start) and at which the last
\* pass that ran to its end was entered (since; before there is one, the
\* last_check of construction).
Idle ==
  [active |-> FALSE, todo |-> <<>>, done |-> <<>>, added |-> 0, succ |-> <<>>,
   start |-> 0, since |-> 0]

NoUci == [ok |-> FALSE, sections |-> <<>>]
NoNft == [ok |-> FALSE, blocks |-> <<>>]

NoLast ==
  [op |-> "none", domain |-> None, interface |-> None, fetched |-> <<>>,
   disp |-> <<>>, calls |-> <<>>, issued |-> <<>>, added |-> 0,
   succ |-> <<>>, cleared |-> FALSE, uci |-> NoUci, nft |-> NoNft,
   before |-> <<>>, prev |-> <<>>, done |-> <<>>, start |-> 0]

NoCount == [k \in {} |-> 0]

Count(f, key) == IF key \in DOMAIN f THEN f[key] ELSE 0

Min(a, b) == IF a <= b THEN a ELSE b

RECURSIVE CountIssued(_, _)
CountIssued(f, issued) ==
  IF issued = <<>> THEN f
  ELSE LET key == <<Head(issued).id, Head(issued).ip>>
       IN CountIssued([x \in DOMAIN f \cup {key} |->
                         IF x = key THEN Min(Count(f, key) + 1, MaxMut)
                         ELSE f[x]],
                      Tail(issued))

Successes(calls) == LET Ok(c) == c.ret IN SelectSeq(calls, Ok)

\* The clock moves on.
Tick ==
  /\ clock < MaxTime
  /\ clock' = clock + 1
  /\ last' = [NoLast EXCEPT !.op = "tick"]
  /\ UNCHANGED <<policies, nft_sets, processed_queries, last_check, pass,
                 mutTotal, mutEpoch>>

\* sync_domains, lines 305-313.
SyncStart ==
  /\ ~pass.active
  /\ LET domain_map == get_all_domains(policies)
     IN IF domain_map = <<>>
        THEN /\ pass' = pass
             /\ last' = [NoLast EXCEPT !.op = "sync_nothing"]
        ELSE /\ pass' = [active |-> TRUE, todo |-> domain_map, done |-> <<>>,
                         added |-> 0, succ |-> <<>>, start |-> clock,
                         since |-> pass.since]
             /\ last' = [NoLast EXCEPT !.op = "sync_start"]
  /\ UNCHANGED <<policies, nft_sets, processed_queries, last_check, clock,
                 mutTotal, mutEpoch>>

\* What one iteration of the loop over domain_map did: whether the except
\* clause of line 351 was entered, how many records were fetched and how
\* many of them went past the tests of lines 325-330.
\* ids are the identities of the records fetched, called those
\* add_ip_to_set was called for, with whether a command put an address
\* into the set.
IterationDone(domain, queries, r) ==
  [domain |-> domain, raised |-> r.raised, fetched |-> Len(r.disp),
   marked |-> Cardinality({k \in DOMAIN r.disp :
                             r.disp[k] \in {"processed", "raised"}}),
   ids |-> {query_id(queries[k]) : k \in DOMAIN queries},
   called |-> {[id |-> r.calls[i].id,
                inserted |-> r.calls[i].ret /\ r.calls[i].cmd] :
                  i \in DOMAIN r.calls}]

SyncDomainAborting(queries) ==
  /\ pass.active
  /\ pass.todo # <<>>
  /\ LET domain == Head(pass.todo).k
         interface == Head(pass.todo).v
     IN \E r \in ProcessQueries({DomainLoopStart(nft_sets, processed_queries)},
                                queries, interface, clock, last_check) :
          /\ nft_sets' = r.sets
          /\ processed_queries' = r.proc
          /\ pass' = [pass EXCEPT
                        !.todo = IF r.raised \/ queries = <<>> THEN <<>>
                                 ELSE Tail(@),
                        !.done = Append(@, IterationDone(domain, queries, r)),
                        !.added = @ + r.added,
                        !.succ = @ \o Successes(r.calls)]
          /\ mutTotal' = CountIssued(mutTotal, r.issued)
          /\ mutEpoch' = CountIssued(mutEpoch, r.issued)
          /\ last' = [NoLast EXCEPT !.op = "sync_domain",
                                    !.domain = domain,
                                    !.interface = interface,
                                    !.fetched = queries,
                                    !.disp = r.disp,
                                    !.calls = r.calls,
                                    !.issued = r.issued,
                                    !.added = r.added,
                                    !.before = nft_sets]
  /\ UNCHANGED <<policies, last_check, clock>>

SyncDomainOwnIdentities(queries) ==
  /\ pass.active
  /\ pass.todo # <<>>
  /\ LET domain == Head(pass.todo).k
         interface == Head(pass.todo).v
     IN \E r \in ProcessQueries({DomainLoopStart(nft_sets, {})},
                                queries, interface, clock, last_check) :
          /\ nft_sets' = r.sets
          /\ processed_queries' = processed_queries \cup r.proc
          /\ pass' = [pass EXCEPT !.todo = Tail(@),
                                  !.done = Append(@, IterationDone(domain, queries, r)),
                                  !.added = @ + r.added,
                                  !.succ = @ \o Successes(r.calls)]
          /\ mutTotal' = CountIssued(mutTotal, r.issued)
          /\ mutEpoch' = CountIssued(mutEpoch, r.issued)
          /\ last' = [NoLast EXCEPT !.op = "sync_domain",
                                    !.domain = domain,
                                    !.interface = interface,
                                    !.fetched = queries,
                                    !.disp = r.disp,
                                    !.calls = r.calls,
                                    !.issued = r.issued,
                                    !.added = r.added,
                                    !.before = nft_sets]
  /\ UNCHANGED <<policies, last_check, clock>>

\* sync_domains, lines 316-352: one iteration of the loop over domain_map.
\* queries is what get_query_log returns (<<>> when the request fails).
SyncDomain(queries) ==
  /\ pass.active
  /\ pass.todo # <<>>
  /\ LET domain == Head(pass.todo).k
         interface == Head(pass.todo).v
     IN \E r \in ProcessQueries({DomainLoopStart(nft_sets, processed_queries)},
                                queries, interface, clock, last_check) :
          /\ nft_sets' = r.sets
          /\ processed_queries' = r.proc
          /\ pass' = [pass EXCEPT !.todo = Tail(@),
                                  !.done = Append(@, IterationDone(domain, queries, r)),
                                  !.added = @ + r.added,
                                  !.succ = @ \o Successes(r.calls)]
          /\ mutTotal' = CountIssued(mutTotal, r.issued)
          /\ mutEpoch' = CountIssued(mutEpoch, r.issued)
          /\ last' = [NoLast EXCEPT !.op = "sync_domain",
                                    !.domain = domain,
                                    !.interface = interface,
                                    !.fetched = queries,
                                    !.disp = r.disp,
                                    !.calls = r.calls,
                                    !.issued = r.issued,
                                    !.added = r.added,
                                    !.before = nft_sets]
  /\ UNCHANGED <<policies, last_check, clock>>

SyncEndClearingAtThreshold ==
  /\ pass.active
  /\ pass.todo = <<>>
  /\ last_check' = clock
  /\ LET clear == Cardinality(processed_queries) >= CapacityThreshold
     IN /\ processed_queries' = IF clear THEN {} ELSE processed_queries
        /\ mutEpoch' = IF clear THEN NoCount ELSE mutEpoch
        /\ last' = [NoLast EXCEPT !.op = "sync_end", !.added = pass.added,
                                  !.succ = pass.succ, !.cleared = clear,
                                  !.done = pass.done,
                                  !.start = pass.start]
  /\ pass' = [Idle EXCEPT !.since = pass.start]
  /\ UNCHANGED <<policies, nft_sets, clock, mutTotal>>

\* sync_domains, lines 354-362.
SyncEnd ==
  /\ pass.active
  /\ pass.todo = <<>>
  /\ last_check' = clock
  /\ LET clear == Cardinality(processed_queries) > CapacityThreshold
     IN /\ processed_queries' = IF clear THEN {} ELSE processed_queries
        /\ mutEpoch' = IF clear THEN NoCount ELSE mutEpoch
        /\ last' = [NoLast EXCEPT !.op = "sync_end", !.added = pass.added,
                                  !.succ = pass.succ, !.cleared = clear,
                                  !.done = pass.done,
                                  !.start = pass.start]
  /\ pass' = [Idle EXCEPT !.since = pass.start]
  /\ UNCHANGED <<policies, nft_sets, clock, mutTotal>>

ReloadResettingSyncState(uci, nft) ==
  /\ ~pass.active
  /\ policies' = load_config(policies, UciOut(uci))
  /\ nft_sets' = discover_sets(nft_sets, policies', NftOut(nft))
  /\ processed_queries' = {}
  /\ last_check' = clock - 1
  /\ last' = [NoLast EXCEPT !.op = "reload", !.uci = uci, !.nft = nft,
                            !.before = nft_sets]
  /\ UNCHANGED <<clock, pass, mutTotal, mutEpoch>>

\* reload_pbr_config.
Reload(uci, nft) ==
  /\ ~pass.active
  /\ policies' = load_config(policies, UciOut(uci))
  /\ nft_sets' = discover_sets(nft_sets, policies', NftOut(nft))
  /\ last' = [NoLast EXCEPT !.op = "reload", !.uci = uci, !.nft = nft,
                            !.before = nft_sets]
  /\ UNCHANGED <<processed_queries, last_check, clock, pass, mutTotal, mutEpoch>>

\* restart_pbr_service: when the restart command fails nothing else is done.
DailyReset(restarted, nft) ==
  /\ ~pass.active
  /\ nft_sets' = IF restarted THEN discover_sets(nft_sets, policies, NftOut(nft))
                 ELSE nft_sets
  /\ last' = [NoLast EXCEPT !.op = "reset",
                            !.nft = IF restarted THEN nft ELSE NoNft,
                            !.before = nft_sets]
  /\ UNCHANGED <<policies, processed_queries, last_check, clock, pass,
                 mutTotal, mutEpoch>>

\* load_config called on its own.
Load(uci) ==
  /\ policies' = load_config(policies, UciOut(uci))
  /\ last' = [NoLast EXCEPT !.op = "load", !.uci = uci]
  /\ UNCHANGED <<nft_sets, processed_queries, last_check, clock, pass,
                 mutTotal, mutEpoch>>

\* discover_sets called on its own.
Discover(nft) ==
  /\ nft_sets' = discover_sets(nft_sets, policies, NftOut(nft))
  /\ last' = [NoLast EXCEPT !.op = "discover", !.nft = nft,
                            !.before = nft_sets]
  /\ UNCHANGED <<policies, processed_queries, last_check, clock, pass,
                 mutTotal, mutEpoch>>

\* The query id logged for a call that no record stands behind.
NoId == <<BadTime, "", "">>

\* add_ip_to_set called on its own; prev is the call before it, if the
\* last operation was one.
Insert(set_name, ip_address, outcome) ==
  LET r == add_ip_to_set(nft_sets, set_name, ip_address, outcome)
  IN /\ r.cmd \/ outcome = "ok"
     /\ nft_sets' = r.sets
     /\ last' = [NoLast EXCEPT
                   !.op = "insert",
                   !.calls = <<[id |-> NoId, set |-> set_name,
                                ip |-> ip_address, ret |-> r.ret,
                                cmd |-> r.cmd]>>,
                   !.issued = IF r.cmd
                              THEN <<[id |-> NoId, set |-> set_name,
                                      ip |-> ip_address, outcome |-> outcome]>>
                              ELSE <<>>,
                   !.before = nft_sets,
                   !.prev = last.calls]
     /\ UNCHANGED <<policies, processed_queries, last_check, clock, pass,
                    mutTotal, mutEpoch>>

\* PBRSyncService.__init__: both stores are loaded once.
Construct(uci, nft) ==
  /\ policies = load_config(<<>>, UciOut(uci))
  /\ nft_sets = discover_sets(<<>>, policies, NftOut(nft))
  /\ processed_queries = {}
  /\ clock = 1
  /\ last_check = clock - 1
  /\ pass = Idle
  /\ last = [NoLast EXCEPT !.op = "init", !.uci = uci, !.nft = nft]
  /\ mutTotal = NoCount
  /\ mutEpoch = NoCount

----------------------------------------------------------------------------
(* The service: construction, then passes, reloads and daily resets, one   *)
(* at a time (the scheduler runs each job to completion).                  *)

Ip1 == "203.0.113.5"
Ip2 == "93.184.216.34"

AllOptions == {"name=", "interface=", "dest_addr=", "enabled="}

SecMedia ==
  Section(AllOptions \ {"enabled="}, "Media", "wan1", <<"a.com">>, "")
SecBackup ==
  Section(AllOptions, "backup", "wan2", <<"b.com", "10.0.0.0/8">>, "1")

SyncUcis == {NoUci, [ok |-> TRUE, sections |-> <<SecMedia, SecBackup>>]}

BlkA == Block("pbrset", "pbr_a", <<"media">>, <<{Ip1}>>)
BlkB == Block("pbrset", "pbr_b", <<"wan2">>, <<>>)
BlkC == Block("pbrset", "pbr_c", <<"MEDIA">>, <<>>)

SyncNfts ==
  {NoNft} \cup {[ok |-> TRUE, blocks |-> b] : b \in {<<BlkA, BlkB>>, <<BlkC, BlkA>>}}

A(value) == [type |-> "A", value |-> value]

ShapeGood == [name |-> "a.com", client |-> "c1", answer |-> <<A(Ip1)>>]
ShapeMixed ==
  [name |-> "a.com", client |-> "c2",
   answer |-> <<A("0.0.0.0"), [type |-> "AAAA", value |-> "::1"], A(""),
                A("127.0.0.1"), A(Ip2)>>]
ShapeBroken ==
  [name |-> "a.com", client |-> "c1",
   answer |-> <<[type |-> Malformed, value |-> ""], A(Ip1)>>]

Query(t, q) ==
  [time |-> t, name |-> q.name, client |-> q.client, answer |-> q.answer]

\* The records the query log can hold: one with a timestamp that does not
\* parse, and two that share (time, name, client).
Queries ==
  {Query(1, ShapeGood), Query(BadTime, ShapeGood), Query(1, ShapeMixed),
   Query(1, ShapeBroken)}

Fetches == SeqsUpTo(Queries, MaxFetch)

Init == \E uci \in SyncUcis, nft \in SyncNfts : Construct(uci, nft)

\* A pass is started some time after the previous one ended.
Next ==
  \/ Tick
  \/ clock > last_check /\ SyncStart
  \/ \E queries \in Fetches : SyncDomain(queries)
  \/ SyncEnd
  \/ \E uci \in SyncUcis, nft \in SyncNfts : Reload(uci, nft)
  \/ \E restarted \in BOOLEAN, nft \in SyncNfts : DailyReset(restarted, nft)

Spec == Init /\ [][Next]_vars

----------------------------------------------------------------------------
(* Properties of a pass (specification Spec).                              *)

Step == last.op = "sync_domain"

Elements(sets, set_name) == DictGet(sets, set_name).elements

\* The records of the last fetch that went past both tests of lines 325-330.
Marked == {k \in DOMAIN last.fetched : last.disp[k] \in {"processed", "raised"}}

C2_StaleNeverProcessed ==
  [][ last'.op = "sync_domain" =>
        \A k \in DOMAIN last'.fetched :
          LET q == last'.fetched[k]
          IN (q.time # BadTime /\ q.time <= last_check) =>
               /\ query_id(q) \in processed_queries' =>
                    query_id(q) \in processed_queries
               /\ \A i \in DOMAIN last'.calls : last'.calls[i].id # query_id(q)
               /\ last_check' = last_check ]_vars

\* A stale record whose identity is not in processed_queries was fetched.
C2_Witness ==
  /\ Step
  /\ \E k \in DOMAIN last.fetched :
       /\ last.fetched[k].time # BadTime
       /\ last.fetched[k].time <= last_check
       /\ query_id(last.fetched[k]) \notin processed_queries
       /\ Count(mutTotal, <<query_id(last.fetched[k]), Ip1>>) = 0

\* C3: every command issued while the records of domain d are processed
\* names a set bound to the interface the enabled policies give d, the
\* first such set of the registry; none is issued when no set is bound to
\* that interface.
C3_TargetSet ==
  Step =>
    LET domain_map == get_all_domains(policies)
        interface == DictGet(domain_map, last.domain)
        bound == {i \in DOMAIN nft_sets : nft_sets[i].v.interface = interface}
    IN /\ DictHas(domain_map, last.domain)
       /\ \A c \in Range(last.issued) \cup Range(last.calls) :
            \E i \in bound : /\ nft_sets[i].k = c.set
                             /\ \A j \in bound : i <= j
       /\ bound = {} => last.issued = <<>>

\* A command was issued while a set bound to another interface and a later
\* set bound to the same interface exist.
C3_Witness ==
  /\ Step
  /\ last.issued # <<>>
  /\ \E i \in DOMAIN nft_sets :
       nft_sets[i].v.interface \notin {None, last.interface}
  /\ \E i, j \in DOMAIN nft_sets :
       i < j /\ nft_sets[i].v.interface = last.interface
             /\ nft_sets[j].v.interface = last.interface

\* C4: when a command issued for an answer of a record succeeds, the
\* address is a member of the targeted set after the loop iteration and at
\* the end of the pass, and the pass counts one success for that answer:
\* added_count is the number of add_ip_to_set calls that returned True, one
\* of them for that answer.
C4_InsertedAndCounted ==
  /\ Step =>
       /\ last.added = Len(Successes(last.calls))
       /\ \A c \in Range(last.issued) :
            c.outcome = "ok" =>
              /\ c.ip \notin Elements(last.before, c.set)
              /\ c.ip \in Elements(nft_sets, c.set)
              /\ Cardinality({i \in DOMAIN last.calls :
                                /\ last.calls[i].id = c.id
                                /\ last.calls[i].ip = c.ip
                                /\ last.calls[i].ret}) = 1
  /\ last.op = "sync_end" =>
       /\ last.added = Len(last.succ)
       /\ \A i \in DOMAIN last.succ :
            /\ last.succ[i].ip \in Elements(nft_sets, last.succ[i].set)
            /\ last.succ[i].cmd =>
                 \A j \in DOMAIN last.succ :
                   (last.succ[j].id = last.succ[i].id
                    /\ last.succ[j].ip = last.succ[i].ip) => j = i

\* A pass ended in which a command for a fresh record succeeded.
C4_Witness ==
  /\ last.op = "sync_end"
  /\ \E i \in DOMAIN last.succ :
       /\ last.succ[i].cmd
       /\ last.succ[i].id[1] # BadTime
       /\ last.succ[i].ip \in Elements(nft_sets, last.succ[i].set)
  /\ last.added >= 1

\* The answers of record q up to the first malformed one.
Reached(q) ==
  {a \in DOMAIN q.answer :
     \A b \in 1..a : q.answer[b].type # Malformed}

\* An answer the filter of lines 337-342 lets through.
Insertable(ans) ==
  /\ ans.type = "A"
  /\ ans.value \notin {"", "0.0.0.0", "127.0.0.1", "127.8.8.8"}

NoFilteredAddress ==
  /\ \A c \in Range(last.issued) \cup Range(last.calls) :
       c.ip \notin {"0.0.0.0", "127.0.0.1", "127.8.8.8"}
  /\ \A i \in DOMAIN nft_sets :
       LET was == IF DictHas(last.before, nft_sets[i].k)
                  THEN Elements(last.before, nft_sets[i].k) ELSE {}
       IN (nft_sets[i].v.elements \ was)
            \cap {"0.0.0.0", "127.0.0.1", "127.8.8.8"} = {}

----------------------------------------------------------------------------
(* The policy store on its own (specification SpecPolicy): load_config on  *)
(* outputs of up to MaxPolicies sections.                                  *)

\* The enabled option: absent, '0' or '1'.
EnabledOptions ==
  {[has |-> {}, val |-> ""], [has |-> {"enabled="}, val |-> "0"],
   [has |-> {"enabled="}, val |-> "1"]}

PolicySections ==
  {Section({"name=", "interface=", "dest_addr="} \cup e.has, "Media", "wan1",
           <<"a.com">>, e.val) : e \in EnabledOptions}
  \cup
  {Section({"interface=", "dest_addr="} \cup e.has, "", "wan2",
           <<"a.com", "b.com">>, e.val) : e \in EnabledOptions}
  \cup
  {Section({"name=", "dest_addr="}, "backup", "",
           <<"b.com", "10.0.0.0/8">>, "")}

PolicyUcis ==
  {NoUci} \cup {[ok |-> TRUE, sections |-> s] :
                  s \in SeqsUpTo(PolicySections, MaxPolicies)}

InitPolicy == \E uci \in PolicyUcis : Construct(uci, NoNft)

NextPolicy == \E uci \in PolicyUcis : Load(uci)

SpecPolicy == InitPolicy /\ [][NextPolicy]_vars

Domains(p) == Range(p.domains)

\* The interface of the last enabled policy that lists domain d.
LastEnabledInterface(d) ==
  LET listing == {i \in DOMAIN policies :
                    policies[i].v.enabled /\ d \in Domains(policies[i].v)}
  IN policies[CHOOSE i \in listing : \A j \in listing : j <= i].v.interface

\* C5 as stated: no domain of a disabled policy is a key of
\* get_all_domains(), whether or not an enabled policy lists it too.
C5_DisabledDomainsNeverListed ==
  \A i \in DOMAIN policies :
    ~policies[i].v.enabled =>
      \A d \in Domains(policies[i].v) :
        ~DictHas(get_all_domains(policies), d)

\* C5 as amended: a domain is a key of get_all_domains() exactly when an
\* enabled policy lists it, and it maps to the interface of the last such
\* policy; so a domain that only disabled policies list is never a key,
\* and one that an enabled policy lists too is.
C5_OnlyEnabledDomainsListed ==
  LET domain_map == get_all_domains(policies)
  IN /\ \A d \in DictKeys(domain_map) :
          /\ \E i \in DOMAIN policies :
               policies[i].v.enabled /\ d \in Domains(policies[i].v)
          /\ DictGet(domain_map, d) = LastEnabledInterface(d)
     /\ \A i \in DOMAIN policies :
          policies[i].v.enabled =>
            Domains(policies[i].v) \subseteq DictKeys(domain_map)

\* A disabled policy lists one domain that an enabled policy lists too and
\* one that no enabled policy lists.
C5_Witness ==
  /\ last.op = "load"
  /\ \E i, j \in DOMAIN policies :
       /\ ~policies[i].v.enabled
       /\ policies[j].v.enabled
       /\ \E d \in Domains(policies[i].v) : d \in Domains(policies[j].v)
       /\ \E d \in Domains(policies[i].v) :
            /\ d \notin Domains(policies[j].v)
            /\ ~DictHas(get_all_domains(policies), d)

\* The sections of the output last loaded that have no enabled option.
NoEnabledOption ==
  {i \in DOMAIN last.uci.sections : "enabled=" \notin last.uci.sections[i].has}

Loaded == last.op \in {"init", "load"} /\ last.uci.ok

----------------------------------------------------------------------------
(* add_ip_to_set on its own (specification SpecInsert).                    *)

InsertSets == {"pbr_a", "pbr_b", "pbr_x"}

InitInsert ==
  \E nft \in SyncNfts :
    Construct([ok |-> TRUE, sections |-> <<SecMedia, SecBackup>>], nft)

NextInsert ==
  \E set_name \in InsertSets, ip \in {Ip1, Ip2}, outcome \in Outcomes :
    Insert(set_name, ip, outcome)

SpecInsert == InitInsert /\ [][NextInsert]_vars

\* The last two operations were add_ip_to_set with the same arguments, and
\* the first returned True.
CalledTwice ==
  /\ last.op = "insert"
  /\ last.prev # <<>>
  /\ last.prev[1].set = last.calls[1].set
  /\ last.prev[1].ip = last.calls[1].ip
  /\ last.prev[1].ret

\* C6: when add_ip_to_set is called twice with the same arguments and the
\* first call returns True, the second returns True, issues no command and
\* leaves the registry as the first call left it.
C6_SecondInsertIsNoOp ==
  CalledTwice =>
    /\ last.calls[1].ret
    /\ ~last.calls[1].cmd
    /\ last.issued = <<>>
    /\ nft_sets = last.before
    /\ last.calls[1].ip \in Elements(nft_sets, last.calls[1].set)

\* Such a pair of calls, the first of which ran a command for a set the
\* registry did not hold.
C6_Witness ==
  /\ CalledTwice
  /\ last.prev[1].cmd
  /\ last.calls[1].set = "pbr_x"

\* C7: when the command add_ip_to_set runs fails or raises, the call
\* returns False and the registry is as it was: no member added, no entry
\* created.
C7_FailedInsertChangesNothing ==
  (last.op = "insert" /\ last.issued # <<>>
     /\ last.issued[1].outcome \in {"fail", "exc"}) =>
    /\ ~last.calls[1].ret
    /\ nft_sets = last.before

\* A command for a set the registry does not hold raised.
C7_Witness ==
  /\ last.op = "insert"
  /\ last.issued # <<>>
  /\ last.issued[1].outcome = "exc"
  /\ ~DictHas(nft_sets, last.calls[1].set)

----------------------------------------------------------------------------
(* The registry on its own (specification SpecRegistry): discover_sets on  *)
(* listings of up to MaxBlocks blocks.                                     *)

SecMediaOff ==
  Section(AllOptions, "Media", "wan1", <<"a.com">>, "0")

RegistryUcis ==
  {[ok |-> TRUE, sections |-> s] :
     s \in {<<SecMedia, SecBackup>>, <<SecMediaOff, SecBackup>>}}

\* Sets with and without a comment and an elements line, a comment that is
\* not one word, a rule of a chain with a comment, and a set of another
\* name.
RegistryBlocks ==
  {Block("pbrset", "pbr_a", annot, elems) :
     annot \in {<<>>, <<"media">>, <<"my policy">>},
     elems \in {<<>>, <<{Ip1}>>}}
  \cup {Block("pbrset", "pbr_b", <<"wan2">>, <<>>),
        Block("pbrset", "pbr_b", <<"MEDIA">>, <<{Ip2}>>),
        Block("rule", "", <<"wan2">>, <<>>),
        Block("set", "allowed", <<>>, <<{Ip2}>>)}

\* nft lists each set once.
SetNamesDistinct(blocks) ==
  \A i, j \in DOMAIN blocks :
    (blocks[i].kind # "rule" /\ blocks[j].kind # "rule"
     /\ blocks[i].name = blocks[j].name) => i = j

RegistryNfts ==
  {NoNft} \cup {[ok |-> TRUE, blocks |-> b] :
                  b \in {x \in SeqsUpTo(RegistryBlocks, MaxBlocks) :
                           SetNamesDistinct(x)}}

InitRegistry ==
  \E uci \in RegistryUcis, nft \in RegistryNfts : Construct(uci, nft)

NextRegistry == \E nft \in RegistryNfts : Discover(nft)

SpecRegistry == InitRegistry /\ [][NextRegistry]_vars

Discovered == last.op \in {"init", "discover"} /\ last.nft.ok

\* The interfaces of the enabled policies whose lower-cased name is the
\* lower-cased annotation, or else the annotation itself.
AnnotatedInterfaces(annot) ==
  LET named == {i \in DOMAIN policies :
                  /\ policies[i].v.enabled
                  /\ policies[i].v.name # ""
                  /\ Lower(policies[i].v.name) = Lower(annot)}
  IN IF named # {} THEN {policies[i].v.interface : i \in named}
     ELSE {annot}

\* C9: after discover_sets, every set of the reserved prefix whose block
\* has a comment is bound to the interface of the enabled policy named by
\* the comment (compared in lower case), or else to the comment's text;
\* the name of a disabled policy resolves nothing.
C9_AnnotatedSetIsBound ==
  Discovered =>
    \A i \in DOMAIN last.nft.blocks :
      LET b == last.nft.blocks[i]
      IN (b.kind = "pbrset" /\ b.annot # <<>>) =>
           /\ DictHas(nft_sets, b.name)
           /\ DictGet(nft_sets, b.name).interface
                \in AnnotatedInterfaces(b.annot[1])

----------------------------------------------------------------------------
(* Failed loads (specification SpecPolicy).                                *)

\* C11: a load_config whose `uci show pbr` fails leaves self.policies as it
\* was before the call: neither emptied nor partly overwritten.
C11_FailedLoadKeepsPolicies ==
  [][ (last'.op = "load" /\ ~last'.uci.ok) => policies' = policies ]_vars

\* A load failed while two policies were held, and both are still held.
C11_Witness ==
  /\ last.op = "load"
  /\ ~last.uci.ok
  /\ Len(policies) = 2
  /\ policies[2].v.domains # <<>>

----------------------------------------------------------------------------
(* Failures inside a pass (specification Spec).                            *)

\* The keys of an ordered dict, in order.
KeySeq(d) == [i \in DOMAIN d |-> d[i].k]

DoneDomains(done) == [i \in DOMAIN done |-> done[i].domain]

\* C12: a pass runs one iteration for every domain of get_all_domains(), in
\* order, whether or not an earlier iteration failed to fetch or raised;
\* in each iteration every fetched record is taken through the tests of
\* lines 325-330 unless a record of the same domain raised before it.
C12_FailureDoesNotAbortPass ==
  /\ pass.active =>
       DoneDomains(pass.done) \o KeySeq(pass.todo)
         = KeySeq(get_all_domains(policies))
  /\ last.op = "sync_end" =>
       DoneDomains(last.done) = KeySeq(get_all_domains(policies))
  /\ Step =>
       \A k \in DOMAIN last.fetched :
         /\ last.disp[k] = "unreached" =>
              \E j \in 1..(k - 1) : last.disp[j] = "raised"
         /\ last.disp[k] = "stale" =>
              /\ last.fetched[k].time # BadTime
              /\ last.fetched[k].time <= last_check
         /\ last.disp[k] # "stale" =>
              (last.disp[k] = "unreached"
               \/ query_id(last.fetched[k]) \in processed_queries)

\* A pass ended in which the iteration of the first domain raised and that
\* of the second domain processed a record.
C12_Witness ==
  /\ last.op = "sync_end"
  /\ Len(last.done) = 2
  /\ last.done[1].raised
  /\ ~last.done[2].raised
  /\ last.done[2].marked > 0

\* The records of the fetch of the step being taken that go past both
\* tests of lines 325-330.
MarkedNow == {k \in DOMAIN last'.fetched : last'.disp[k] \in {"processed", "raised"}}

C15_RaiseSkipsOneRecord ==
  Step => \A k \in DOMAIN last.fetched : last.disp[k] # "unreached"

\* C19: last_check never decreases and only the last step of a pass
\* (line 355) changes it; reload_pbr_config and restart_pbr_service leave
\* last_check and processed_queries as they are.
C19_OnlyPassEndMovesLastCheck ==
  [][ /\ last_check' >= last_check
      /\ last_check' # last_check => last'.op = "sync_end"
      /\ last'.op \in {"reload", "reset"} =>
           /\ last_check' = last_check
           /\ processed_queries' = processed_queries ]_vars

\* A daily reset that rediscovered the sets ran after a pass had moved
\* last_check and left identities in processed_queries.
C19_Witness ==
  /\ last.op = "reset"
  /\ last.nft.ok
  /\ last_check = 2
  /\ processed_queries # {}
  /\ nft_sets # <<>>

PassDone == IF pass.active THEN pass.done ELSE last.done

CalledIds(it) == {c.id : c \in it.called}

----------------------------------------------------------------------------
(* Passes against the clock (specification SpecClock): records stamped     *)
(* while a pass runs.  Passes follow each other every two minutes, so one  *)
(* may start in the time unit in which the previous one ended.             *)

ClockQueries == {Query(1, ShapeGood), Query(2, ShapeGood)}

\* The log holds no record stamped later than the time of the request.
ClockFetches ==
  [t \in 0..MaxTime |->
     {f \in SeqsUpTo(ClockQueries, MaxFetch) :
        \A k \in DOMAIN f : f[k].time <= t}]

InitClock ==
  Construct([ok |-> TRUE, sections |-> <<SecMedia, SecBackup>>],
            [ok |-> TRUE, blocks |-> <<BlkA, BlkB>>])

NextClock ==
  \/ Tick
  \/ SyncStart
  \/ \E queries \in ClockFetches[clock] : SyncDomain(queries)
  \/ SyncEnd

SpecClock == InitClock /\ [][NextClock]_vars

\* C14: at the end of a pass last_check is the time at which the pass was
\* entered, so a record stamped after the previous pass was entered, which
\* that pass did not process, is not skipped by the test of line 325.
C14_LastCheckIsPassStart ==
  /\ last.op = "sync_end" => last_check = last.start
  /\ Step =>
       \A k \in DOMAIN last.fetched :
         (/\ last.disp[k] = "stale"
          /\ query_id(last.fetched[k]) \notin processed_queries)
           => last.fetched[k].time <= pass.since

----------------------------------------------------------------------------
(* Sets without a comment (specification SpecRegistry).                    *)

\* The interface names find_set_for_interface is asked for: those of the
\* policies and the comments taken as interface names.
Interfaces == {"wan1", "wan2", "media", "MEDIA", "backup", ""}

\* C16: after discover_sets, a set of the reserved prefix whose block has
\* no comment has interface None and find_set_for_interface returns it
\* for no interface, whatever follows its block in the listing.
C16_UnannotatedSetIsUnbound ==
  Discovered =>
    \A i \in DOMAIN last.nft.blocks :
      LET b == last.nft.blocks[i]
      IN (b.kind = "pbrset" /\ b.annot = <<>>) =>
           /\ DictHas(nft_sets, b.name)
           /\ DictGet(nft_sets, b.name).interface = None
           /\ \A interface \in Interfaces :
                find_set_for_interface(nft_sets, interface) # b.name

\* C18: after a discover_sets that succeeded, find_set_for_interface
\* returns None for an interface no set of the registry is bound to, and
\* otherwise the set bound to it that the listing just read has first.
C18_FirstInDiscoveryOrder ==
  Discovered =>
    \A interface \in Interfaces :
      LET bound == {n \in DictKeys(nft_sets) :
                      DictGet(nft_sets, n).interface = interface}
          found == find_set_for_interface(nft_sets, interface)
          blocks == last.nft.blocks
      IN /\ bound = {} => found = None
         /\ bound # {} =>
              /\ found \in bound
              /\ \E k \in DOMAIN blocks :
                   /\ blocks[k].kind = "pbrset"
                   /\ blocks[k].name = found
                   /\ \A j \in 1..(k - 1) :
                        ~(blocks[j].kind = "pbrset" /\ blocks[j].name \in bound)

----------------------------------------------------------------------------
(* The registry under discoveries, inserts and daily resets (specification *)
(* SpecMirror).                                                            *)

InitMirror == InitInsert

NextMirror ==
  \/ \E nft \in SyncNfts : Discover(nft)
  \/ \E set_name \in InsertSets, ip \in {Ip1, Ip2}, outcome \in Outcomes :
       Insert(set_name, ip, outcome)
  \/ \E restarted \in BOOLEAN, nft \in SyncNfts : DailyReset(restarted, nft)

SpecMirror == InitMirror /\ [][NextMirror]_vars

\* The addresses a listing gives for the set of that name; none when the
\* listing does not have the set.
RECURSIVE Listed(_, _)
Listed(blocks, set_name) ==
  IF blocks = <<>> THEN {}
  ELSE (IF Head(blocks).kind = "pbrset" /\ Head(blocks).name = set_name
        THEN UNION Range(Head(blocks).elems) ELSE {})
       \cup Listed(Tail(blocks), set_name)

ElementsOrNone(sets, set_name) ==
  IF DictHas(sets, set_name) THEN Elements(sets, set_name) ELSE {}

\* C17: right after a discover_sets that succeeded the elements cached for
\* every set are the addresses the listing gives for it, none for a set
\* the listing does not have; right after an add_ip_to_set they are what
\* they were, plus the address if the call ran a command that succeeded.
C17_MembersMirrorFirewall ==
  /\ (last.op \in {"init", "discover", "reset"} /\ last.nft.ok) =>
       \A i \in DOMAIN nft_sets :
         nft_sets[i].v.elements = Listed(last.nft.blocks, nft_sets[i].k)
  /\ last.op = "insert" =>
       \A i \in DOMAIN nft_sets :
         nft_sets[i].v.elements =
           ElementsOrNone(last.before, nft_sets[i].k)
           \cup (IF /\ nft_sets[i].k = last.calls[1].set
                    /\ last.calls[1].ret /\ last.calls[1].cmd
                 THEN {last.calls[1].ip} ELSE {})

====
